---------------------------- MODULE Spec2Model ----------------------------
(***************************************************************************)
(* Model of src/main.py: class ExpenseTracker, a menu-driven personal      *)
(* expense tracker that keeps a list of expense dicts and a monthly        *)
(* budget, and saves them to / loads them from a CSV file.                 *)
(*                                                                         *)
(* Text.  A Python str is a sequence of atoms.  An atom is a TLA+ string   *)
(* standing for one character (",", the double quote, "\n", "\r", " ",     *)
(* "-", ".", a digit) or for an indivisible run of ordinary letters        *)
(* ("Food", "amount", "nan", ...).  No atom is a concatenation of others,  *)
(* so equal strs are equal sequences.                                      *)
(*                                                                         *)
(* Numbers.  A Python float is modelled by its value in hundredths (an     *)
(* integer), or by NaN.  Every numeric text of the model has at most two   *)
(* fractional digits, for which repr()/float() are exact; binary rounding  *)
(* of longer sums, infinities, exponents and the sign of zero are outside  *)
(* the model.                                                              *)
(***************************************************************************)
EXTENDS Integers, Sequences, FiniteSets, TLC

\* ------------------------------------------------------------------ bounds
\* Largest number of expense dicts the ledger may hold when add_expense starts.
MaxExpenses == 2

\* ------------------------------------------------------------- characters
Comma == ","
Quote == "\""
NL == "\n"
CR == "\r"
Space == " "
Dash == "-"
Dot == "."
EOL == "<EOL>"

Digits == {"0", "1", "2", "3", "4", "5", "6", "7", "8", "9"}

DigitVal(c) ==
    CASE c = "0" -> 0 [] c = "1" -> 1 [] c = "2" -> 2 [] c = "3" -> 3
      [] c = "4" -> 4 [] c = "5" -> 5 [] c = "6" -> 6 [] c = "7" -> 7
      [] c = "8" -> 8 [] c = "9" -> 9

DigitChar(d) ==
    CASE d = 0 -> "0" [] d = 1 -> "1" [] d = 2 -> "2" [] d = 3 -> "3"
      [] d = 4 -> "4" [] d = 5 -> "5" [] d = 6 -> "6" [] d = 7 -> "7"
      [] d = 8 -> "8" [] d = 9 -> "9"

\* ---------------------------------------------------------- Python values
\* One shape for every value a dict of the ledger can hold.
PyStr(s) == [t |-> "str", s |-> s, n |-> 0, l |-> <<>>]
PyNone == [t |-> "none", s |-> <<>>, n |-> 0, l |-> <<>>]
PyInt(n) == [t |-> "int", s |-> <<>>, n |-> n, l |-> <<>>]
PyFloat(n) == [t |-> "float", s |-> <<>>, n |-> n, l |-> <<>>]
PyNaN == [t |-> "nan", s |-> <<>>, n |-> 0, l |-> <<>>]
PyList(l) == [t |-> "list", s |-> <<>>, n |-> 0, l |-> l]

IsNumber(v) == v.t \in {"int", "float", "nan"}

\* Python's ==, <=, > on numbers: every comparison with NaN is False.
PyEq(a, b) == a.t # "nan" /\ b.t # "nan" /\ a.n = b.n
PyLe(a, b) == a.t # "nan" /\ b.t # "nan" /\ a.n <= b.n
PyGt(a, b) == a.t # "nan" /\ b.t # "nan" /\ a.n > b.n

\* Python's + and - and abs() on numbers; the result of float arithmetic is a float.
PyAdd(a, b) == IF a.t = "nan" \/ b.t = "nan" THEN PyNaN ELSE PyFloat(a.n + b.n)
PySub(a, b) == IF a.t = "nan" \/ b.t = "nan" THEN PyNaN ELSE PyFloat(a.n - b.n)
PyAbs(a) == IF a.t = "nan" THEN PyNaN ELSE PyFloat(IF a.n < 0 THEN 0 - a.n ELSE a.n)

\* ------------------------------------------------------------ str methods
RECURSIVE LStrip(_)
LStrip(s) ==
    IF s # <<>> /\ Head(s) \in {Space, NL, CR} THEN LStrip(Tail(s)) ELSE s

RECURSIVE RStrip(_)
RStrip(s) ==
    IF s # <<>> /\ s[Len(s)] \in {Space, NL, CR}
    THEN RStrip(SubSeq(s, 1, Len(s) - 1))
    ELSE s

\* str.strip()
Strip(s) == RStrip(LStrip(s))

\* str.split(sep): the pieces between the occurrences of sep.
RECURSIVE SplitAcc(_, _, _, _)
SplitAcc(s, sep, cur, acc) ==
    IF s = <<>> THEN Append(acc, cur)
    ELSE IF Head(s) = sep THEN SplitAcc(Tail(s), sep, <<>>, Append(acc, cur))
    ELSE SplitAcc(Tail(s), sep, Append(cur, Head(s)), acc)

Split(s, sep) == SplitAcc(s, sep, <<>>, <<>>)

AllDigits(s) == \A i \in 1..Len(s) : s[i] \in Digits

RECURSIVE DigitsVal(_)
DigitsVal(s) ==
    IF s = <<>> THEN 0
    ELSE 10 * DigitsVal(SubSeq(s, 1, Len(s) - 1)) + DigitVal(s[Len(s)])

RECURSIVE NatText(_)
NatText(k) ==
    IF k < 10 THEN <<DigitChar(k)>>
    ELSE Append(NatText(k \div 10), DigitChar(k % 10))

\* ------------------------------------------------------- float() and repr
\* float(text): ok is FALSE where Python raises ValueError.
FloatOfBody(b) ==
    LET parts == Split(b, Dot)
        ip == parts[1]
        fp == IF Len(parts) = 2 THEN parts[2] ELSE <<>>
        good == /\ Len(parts) \in {1, 2}
                /\ AllDigits(ip) /\ AllDigits(fp)
                /\ Len(ip) + Len(fp) >= 1
        frac == CASE Len(fp) = 0 -> 0
                  [] Len(fp) = 1 -> 10 * DigitsVal(fp)
                  [] Len(fp) = 2 -> DigitsVal(fp)
    IN  IF good THEN [ok |-> TRUE, n |-> 100 * DigitsVal(ip) + frac]
        ELSE [ok |-> FALSE, n |-> 0]

ParseFloat(text) ==
    LET s == Strip(text)
        neg == s # <<>> /\ Head(s) = Dash
        body == IF neg THEN Tail(s) ELSE s
        r == FloatOfBody(body)
    IN  IF s = <<"nan">> THEN [ok |-> TRUE, v |-> PyNaN]
        ELSE IF r.ok THEN [ok |-> TRUE, v |-> PyFloat(IF neg THEN 0 - r.n ELSE r.n)]
        ELSE [ok |-> FALSE, v |-> PyNone]

\* str(x) of a number, as the f-string of save_expenses and csv's writer produce it.
NumberText(v) ==
    LET a == IF v.n < 0 THEN 0 - v.n ELSE v.n
        sign == IF v.n < 0 THEN <<Dash>> ELSE <<>>
        frac == IF (a % 100) % 10 = 0 THEN <<DigitChar((a % 100) \div 10)>>
                ELSE <<DigitChar((a % 100) \div 10), DigitChar(a % 10)>>
    IN  CASE v.t = "nan" -> <<"nan">>
          [] v.t = "int" -> sign \o NatText(a)
          [] v.t = "float" -> sign \o NatText(a \div 100) \o <<Dot>> \o frac

\* ------------------------------------------------- datetime.strptime
IsLeap(y) == (y % 4 = 0 /\ y % 100 # 0) \/ y % 400 = 0

DaysInMonth(y, m) ==
    CASE m \in {1, 3, 5, 7, 8, 10, 12} -> 31
      [] m \in {4, 6, 9, 11} -> 30
      [] m = 2 -> IF IsLeap(y) THEN 29 ELSE 28

\* datetime.strptime(date_str, '%Y-%m-%d') succeeds: %Y is four digits, %m is
\* 1[0-2]|0[1-9]|[1-9], %d is 3[01]|[12]\d|0[1-9]|[1-9]| [1-9], and the three
\* numbers make a date of the calendar (year 1 at least).
StrptimeOk(date_str) ==
    LET p == Split(date_str, Dash)
        dd == IF Len(p) = 3 /\ Len(p[3]) = 2 /\ p[3][1] = Space THEN Tail(p[3]) ELSE p[3]
        y == DigitsVal(p[1])
        m == DigitsVal(p[2])
        d == DigitsVal(dd)
    IN  /\ Len(p) = 3
        /\ Len(p[1]) = 4 /\ AllDigits(p[1])
        /\ Len(p[2]) \in {1, 2} /\ AllDigits(p[2])
        /\ Len(dd) \in {1, 2} /\ AllDigits(dd)
        /\ m \in 1..12
        /\ d >= 1
        /\ y >= 1
        /\ d <= DaysInMonth(y, m)

\* ----------------------------------------------------------- the CSV file
NoFile == <<"<absent>">>
RestKey == <<"<None>">>
KeyDate == <<"date">>
KeyCategory == <<"category">>
KeyAmount == <<"amount">>
KeyDescription == <<"description">>
fieldnames == <<KeyDate, KeyCategory, KeyAmount, KeyDescription>>
BudgetLabel == <<"Monthly Budget">>

Range(s) == {s[i] : i \in 1..Len(s)}

RECURSIVE Join(_, _)
Join(fields, sep) ==
    IF fields = <<>> THEN <<>>
    ELSE IF Len(fields) = 1 THEN fields[1]
    ELSE fields[1] \o <<sep>> \o Join(Tail(fields), sep)

\* csv.writer, dialect excel (QUOTE_MINIMAL, doublequote, lineterminator \r\n):
\* the text of one field.
RECURSIVE DoubleQuotes(_)
DoubleQuotes(s) ==
    IF s = <<>> THEN <<>>
    ELSE IF Head(s) = Quote THEN <<Quote, Quote>> \o DoubleQuotes(Tail(s))
    ELSE <<Head(s)>> \o DoubleQuotes(Tail(s))

FieldText(v) ==
    CASE v.t = "none" -> <<>>
      [] v.t = "str" -> v.s
      [] v.t \in {"int", "float", "nan"} -> NumberText(v)

WriterField(v) ==
    LET s == FieldText(v)
    IN  IF Range(s) \cap {Comma, Quote, CR, NL} # {}
        THEN <<Quote>> \o DoubleQuotes(s) \o <<Quote>>
        ELSE s

WriterRow(values) ==
    Join([i \in 1..Len(values) |-> WriterField(values[i])], Comma) \o <<CR, NL>>

\* csv.DictWriter._dict_to_list: ValueError for a key that is no fieldname
\* (extrasaction='raise'); a missing key is written as restval ''.
DictHasExtras(d) == DOMAIN d \ Range(fieldnames) # {}

DictToList(d) ==
    [i \in 1..Len(fieldnames) |->
        IF fieldnames[i] \in DOMAIN d THEN d[fieldnames[i]] ELSE PyStr(<<>>)]

\* The rows csv.DictWriter.writerows has written when it returns or raises:
\* the dicts before the first one with an extra key.
RECURSIVE WriteRows(_)
WriteRows(dicts) ==
    IF dicts = <<>> THEN [text |-> <<>>, ok |-> TRUE]
    ELSE IF DictHasExtras(Head(dicts)) THEN [text |-> <<>>, ok |-> FALSE]
    ELSE LET rest == WriteRows(Tail(dicts))
         IN  [text |-> WriterRow(DictToList(Head(dicts))) \o rest.text, ok |-> rest.ok]

\* What save_expenses leaves in the opened file (the with block closes it on every
\* path), and whether the try block completed.
FileWritten(exps, budget) ==
    LET rows == WriteRows(exps)
    IN  [text |-> BudgetLabel \o <<Comma>> \o NumberText(budget) \o <<NL>>
                    \o WriterRow([i \in 1..4 |-> PyStr(fieldnames[i])])
                    \o rows.text,
         ok |-> rows.ok]

\* open(filename, 'r') without newline='': \r\n and \r are read as \n.
RECURSIVE UniversalNewlines(_)
UniversalNewlines(s) ==
    IF s = <<>> THEN <<>>
    ELSE IF Head(s) = CR
         THEN IF Len(s) >= 2 /\ s[2] = NL THEN <<NL>> \o UniversalNewlines(Tail(Tail(s)))
              ELSE <<NL>> \o UniversalNewlines(Tail(s))
    ELSE <<Head(s)>> \o UniversalNewlines(Tail(s))

\* The lines a text file iterates over, each with its \n (the last may lack it).
RECURSIVE SplitLines(_, _, _)
SplitLines(s, cur, acc) ==
    IF s = <<>> THEN (IF cur = <<>> THEN acc ELSE Append(acc, cur))
    ELSE IF Head(s) = NL THEN SplitLines(Tail(s), <<>>, Append(acc, Append(cur, NL)))
    ELSE SplitLines(Tail(s), Append(cur, Head(s)), acc)

\* csv.reader's parse_process_char (dialect excel, not strict): p is the parser,
\* c the character or EOL, the end of a line.
SaveField(p) == [p EXCEPT !.field = <<>>, !.row = Append(p.row, p.field)]
AddChar(p, c) == [p EXCEPT !.field = Append(p.field, c)]
AfterLineEnd(c) == IF c = EOL THEN "START_RECORD" ELSE "EAT_CRNL"

ProcessStartField(p, c) ==
    IF c \in {NL, CR, EOL} THEN [SaveField(p) EXCEPT !.state = AfterLineEnd(c)]
    ELSE IF c = Quote THEN [p EXCEPT !.state = "IN_QUOTED_FIELD"]
    ELSE IF c = Comma THEN SaveField(p)
    ELSE [AddChar(p, c) EXCEPT !.state = "IN_FIELD"]

ProcessChar(p, c) ==
    CASE p.state = "START_RECORD" ->
            IF c = EOL THEN p
            ELSE IF c \in {NL, CR} THEN [p EXCEPT !.state = "EAT_CRNL"]
            ELSE ProcessStartField(p, c)
      [] p.state = "START_FIELD" -> ProcessStartField(p, c)
      [] p.state = "IN_FIELD" ->
            IF c \in {NL, CR, EOL} THEN [SaveField(p) EXCEPT !.state = AfterLineEnd(c)]
            ELSE IF c = Comma THEN [SaveField(p) EXCEPT !.state = "START_FIELD"]
            ELSE AddChar(p, c)
      [] p.state = "IN_QUOTED_FIELD" ->
            IF c = EOL THEN p
            ELSE IF c = Quote THEN [p EXCEPT !.state = "QUOTE_IN_QUOTED_FIELD"]
            ELSE AddChar(p, c)
      [] p.state = "QUOTE_IN_QUOTED_FIELD" ->
            IF c = Quote THEN [AddChar(p, c) EXCEPT !.state = "IN_QUOTED_FIELD"]
            ELSE IF c = Comma THEN [SaveField(p) EXCEPT !.state = "START_FIELD"]
            ELSE IF c \in {NL, CR, EOL} THEN [SaveField(p) EXCEPT !.state = AfterLineEnd(c)]
            ELSE [AddChar(p, c) EXCEPT !.state = "IN_FIELD"]
      [] p.state = "EAT_CRNL" ->
            IF c \in {NL, CR} THEN p
            ELSE IF c = EOL THEN [p EXCEPT !.state = "START_RECORD"]
            ELSE [p EXCEPT !.state = "ERROR"]
      [] p.state = "ERROR" -> p

RECURSIVE ProcessLine(_, _)
ProcessLine(p, line) ==
    IF line = <<>> THEN ProcessChar(p, EOL)
    ELSE ProcessLine(ProcessChar(p, Head(line)), Tail(line))

ParseReset == [state |-> "START_RECORD", field |-> <<>>, row |-> <<>>]

\* Reader_iternext, called until the lines run out: the rows read, and ok FALSE
\* where csv.Error is raised.
RECURSIVE ReadRows(_, _, _)
ReadRows(lines, p, rows) ==
    IF lines = <<>>
    THEN IF p.field # <<>> \/ p.state = "IN_QUOTED_FIELD"
         THEN [ok |-> TRUE, rows |-> Append(rows, SaveField(p).row)]
         ELSE [ok |-> TRUE, rows |-> rows]
    ELSE LET q == ProcessLine(p, Head(lines))
         IN  IF q.state = "ERROR" THEN [ok |-> FALSE, rows |-> rows]
             ELSE IF q.state = "START_RECORD"
                  THEN ReadRows(Tail(lines), ParseReset, Append(rows, q.row))
             ELSE ReadRows(Tail(lines), q, rows)

CsvReader(text) == ReadRows(SplitLines(text, <<>>, <<>>), ParseReset, <<>>)

\* csv.DictReader.__next__: dict(zip(fieldnames, row)), the surplus of a long row
\* under restkey None, restval None for the fields a short row lacks.
LastIndex(names, k) == CHOOSE i \in 1..Len(names) :
    names[i] = k /\ \A j \in (i + 1)..Len(names) : names[j] # k

RowDict(names, row) ==
    LET keys == Range(names) \cup (IF Len(names) < Len(row) THEN {RestKey} ELSE {})
    IN  [k \in keys |->
            IF k = RestKey THEN PyList(SubSeq(row, Len(names) + 1, Len(row)))
            ELSE IF LastIndex(names, k) <= Len(row) THEN PyStr(row[LastIndex(names, k)])
            ELSE PyNone]

\* list(csv.DictReader(csvfile)): the first row read gives the fieldnames, the
\* empty rows after it are skipped.
DictReader(rows) ==
    IF rows = <<>> THEN <<>>
    ELSE LET data == SelectSeq(Tail(rows), LAMBDA r : r # <<>>)
         IN  [i \in 1..Len(data) |-> RowDict(rows[1], data[i])]

\* The loop of load_expenses that converts expense['amount'] with float(), in
\* place: it stops at the first dict that raises (KeyError, TypeError for None,
\* ValueError), and the dicts from there on stay as they were read.
RECURSIVE ConvertAmounts(_, _)
ConvertAmounts(exps, i) ==
    IF i > Len(exps) THEN [expenses |-> exps, ok |-> TRUE]
    ELSE LET d == exps[i]
             r == IF KeyAmount \in DOMAIN d /\ d[KeyAmount].t = "str"
                  THEN ParseFloat(d[KeyAmount].s)
                  ELSE [ok |-> FALSE, v |-> PyNone]
         IN  IF r.ok
             THEN ConvertAmounts([exps EXCEPT ![i] = [d EXCEPT ![KeyAmount] = r.v]], i + 1)
             ELSE [expenses |-> exps, ok |-> FALSE]

\* load_expenses on a tracker whose fields are as __init__ set them.
LoadExpenses(content) ==
    LET text == UniversalNewlines(content)
        lines == SplitLines(text, <<>>, <<>>)
        budget_line == IF lines = <<>> THEN <<>> ELSE Strip(lines[1])
        rest == IF lines = <<>> THEN <<>> ELSE SubSeq(text, Len(lines[1]) + 1, Len(text))
        budget_parts == Split(budget_line, Comma)
        b == IF Len(budget_parts) > 1 THEN ParseFloat(budget_parts[2])
             ELSE [ok |-> TRUE, v |-> PyInt(0)]
        rd == CsvReader(rest)
        conv == ConvertAmounts(DictReader(rd.rows), 1)
    IN  IF content = NoFile
        THEN [expenses |-> <<>>, monthly_budget |-> PyInt(0), out |-> "none"]
        ELSE IF ~b.ok
        THEN [expenses |-> <<>>, monthly_budget |-> PyInt(0), out |-> "load_error"]
        ELSE IF ~rd.ok
        THEN [expenses |-> <<>>, monthly_budget |-> b.v, out |-> "load_error"]
        ELSE [expenses |-> conv.expenses, monthly_budget |-> b.v,
              out |-> IF conv.ok THEN "loaded" ELSE "load_error"]

\* ------------------------------------------------------------ the inputs
\* Lines typed at the prompts, and the files found on disk at the first start.
Date_leap == <<"2", "0", "2", "4", "-", "0", "2", "-", "2", "9">>
Date_short == <<"2", "0", "2", "4", "-", "1", "-", "5">>
Date_notleap == <<"2", "0", "2", "3", "-", "0", "2", "-", "2", "9">>
DateInputs == {Date_leap, Date_notleap}

Text_food == <<"Food">>
Text_quoted == <<Space, "a", Comma, Quote, Space>>
Text_cr == <<"a", CR, "b">>
CategoryInputs == {Text_food, Text_quoted, Text_cr, <<Space>>}
DescriptionInputs == {<<"Lunch">>, <<>>}

Num_12_5 == <<"1", "2", ".", "5">>
Num_7_25 == <<"7", ".", "2", "5">>
Num_0 == <<"0">>
Num_neg == <<"-", "5">>
Num_nan == <<"nan">>
Num_bad == <<"x">>
AmountInputs == {Num_7_25, Num_0, Num_neg, Num_nan, Num_bad}
BudgetInputs == {Num_7_25, Num_0, Num_neg, Num_nan, Num_bad}
YesNoInputs == {<<"y">>, <<"Y">>, <<"n">>}

Line(fields) == Join(fields, Comma) \o <<NL>>
HeaderLine == Line(fieldnames)
BudgetLine(text) == Line(<<BudgetLabel, text>>)
GoodLine == Line(<<Date_leap, Text_food, Num_12_5, <<"Lunch">>>>)
GoodLine2 == Line(<<Date_short, Text_food, Num_7_25, <<"Tea">>>>)

File_ok == BudgetLine(Num_12_5) \o HeaderLine \o GoodLine
File_negbudget == BudgetLine(Num_neg) \o HeaderLine
File_badbudget == BudgetLine(Num_bad) \o HeaderLine \o GoodLine
File_short == BudgetLine(Num_12_5) \o HeaderLine \o GoodLine
                \o Line(<<Date_leap, Text_food>>) \o GoodLine2
File_badamount == BudgetLine(Num_12_5) \o HeaderLine
                    \o Line(<<Date_leap, Text_food, Num_bad, <<"Lunch">>>>) \o GoodLine
File_long == BudgetLine(Num_12_5) \o HeaderLine
                \o Line(<<Date_leap, Text_food, Num_12_5, <<"Lunch">>, <<"extra">>>>)
File_three == BudgetLine(Num_12_5) \o HeaderLine \o Line(<<Date_leap, Text_food, Num_12_5>>)
File_empty == <<>>
File_nobudgetline == HeaderLine \o GoodLine
File_invalid == <<"Monthly Budget", NL>> \o HeaderLine
                    \o Line(<<Date_notleap, <<>>, Num_neg, <<>>>>)
File_badheader == BudgetLine(Num_0) \o Line(<<KeyDate, KeyCategory, <<"amt">>, KeyDescription>>)
                    \o GoodLine
InitialFiles == {NoFile, File_ok, File_negbudget, File_badbudget, File_short, File_badamount,
                 File_long, File_three, File_empty, File_nobudgetline, File_invalid,
                 File_badheader}

\* -------------------------------------------------------------- the state
VARIABLES
    csvfile,         \* the content of self.filename on disk, or NoFile
    expenses,        \* self.expenses
    monthly_budget,  \* self.monthly_budget
    pc,              \* where the process is: at the menu, at a prompt, exited, crashed
    date_str,        \* add_expense's local, once get_valid_date has returned
    category,        \* add_expense's local
    amount,          \* add_expense's local
    out,             \* what the last step printed, with the line it read
    own_file         \* the file on disk was absent at the first start

vars == <<csvfile, expenses, monthly_budget, pc, date_str, category, amount, out, own_file>>

Msg(kind, entry) ==
    [kind |-> kind, entry |-> entry, budget |-> PyNone, total |-> PyNone, amount |-> PyNone]

NoLocals == date_str' = <<>> /\ category' = <<>> /\ amount' = PyNone
KeepLocals == UNCHANGED <<date_str, category, amount>>
KeepLedger == UNCHANGED <<expenses, monthly_budget>>

\* __init__: the fields, then load_expenses.
Constructed(content) ==
    LET r == LoadExpenses(content)
    IN  /\ expenses' = r.expenses
        /\ monthly_budget' = r.monthly_budget
        /\ out' = Msg(r.out, <<>>)
        /\ pc' = "menu"
        /\ NoLocals

Init ==
    /\ csvfile \in InitialFiles
    /\ own_file = (csvfile = NoFile)
    /\ LET r == LoadExpenses(csvfile)
       IN  /\ expenses = r.expenses
           /\ monthly_budget = r.monthly_budget
           /\ out = Msg(r.out, <<>>)
    /\ pc = "menu"
    /\ date_str = <<>> /\ category = <<>> /\ amount = PyNone

\* main() once more, after the process has ended.
Restart ==
    /\ pc \in {"exited", "crashed"}
    /\ Constructed(csvfile)
    /\ UNCHANGED <<csvfile, own_file>>

\* ------------------------------------------------------------ add_expense
\* A dict built with the category and the description exchanged.
ExpenseDict_swapped(d, c, a, ds) ==
    [k \in Range(fieldnames) |->
        CASE k = KeyDate -> PyStr(d)
          [] k = KeyCategory -> PyStr(ds)
          [] k = KeyAmount -> a
          [] k = KeyDescription -> PyStr(c)]

ExpenseDict(d, c, a, ds) ==
    [k \in Range(fieldnames) |->
        CASE k = KeyDate -> PyStr(d)
          [] k = KeyCategory -> PyStr(c)
          [] k = KeyAmount -> a
          [] k = KeyDescription -> PyStr(ds)]

\* run(): choice '1'.
ChooseAdd ==
    /\ pc = "menu"
    /\ Len(expenses) < MaxExpenses
    /\ pc' = "add_date"
    /\ out' = Msg("prompt_date", <<"1">>)
    /\ KeepLedger /\ KeepLocals /\ UNCHANGED <<csvfile, own_file>>

get_valid_date ==
    /\ pc = "add_date"
    /\ \E line \in DateInputs :
        IF StrptimeOk(line)
        THEN /\ date_str' = line
             /\ pc' = "add_category"
             /\ out' = Msg("prompt_category", line)
        ELSE /\ out' = Msg("invalid_date", line)
             /\ UNCHANGED <<pc, date_str>>
    /\ KeepLedger /\ UNCHANGED <<category, amount, csvfile, own_file>>

get_category ==
    /\ pc = "add_category"
    /\ \E line \in CategoryInputs :
        IF Strip(line) # <<>>
        THEN /\ category' = Strip(line)
             /\ pc' = "add_amount"
             /\ out' = Msg("prompt_amount", line)
        ELSE /\ out' = Msg("input_empty", line)
             /\ UNCHANGED <<pc, category>>
    /\ KeepLedger /\ UNCHANGED <<date_str, amount, csvfile, own_file>>

\* The value get_positive_float returns for a line, if it returns.
PositiveFloat(line) ==
    LET r == ParseFloat(line)
    IN  [ok |-> r.ok /\ PyGt(r.v, PyInt(0)), v |-> r.v]

get_positive_float ==
    /\ pc = "add_amount"
    /\ \E line \in AmountInputs :
        IF PositiveFloat(line).ok
        THEN /\ amount' = PositiveFloat(line).v
             /\ pc' = "add_description"
             /\ out' = Msg("prompt_description", line)
        ELSE /\ out' = Msg("invalid_amount", line)
             /\ UNCHANGED <<pc, amount>>
    /\ KeepLedger /\ UNCHANGED <<date_str, category, csvfile, own_file>>

get_description ==
    /\ pc = "add_description"
    /\ \E line \in DescriptionInputs :
        IF Strip(line) # <<>>
        THEN /\ expenses' = Append(expenses, ExpenseDict(date_str, category, amount, Strip(line)))
             /\ pc' = "menu"
             /\ out' = Msg("added", line)
             /\ NoLocals
        ELSE /\ out' = Msg("input_empty", line)
             /\ UNCHANGED <<pc, expenses>>
             /\ KeepLocals
    /\ UNCHANGED <<monthly_budget, csvfile, own_file>>

\* ---------------------------------------------------------- view_expenses
\* The f-string of the listing raises: KeyError for a missing key, ValueError or
\* TypeError for :.2f on a str or None.
ViewRaises(e) == Range(fieldnames) \ DOMAIN e # {} \/ ~IsNumber(e[KeyAmount])

view_expenses ==
    /\ pc = "menu"
    /\ IF expenses = <<>> THEN pc' = pc /\ out' = Msg("no_expenses", <<"2">>)
       ELSE IF \E i \in 1..Len(expenses) : ViewRaises(expenses[i])
       THEN pc' = "crashed" /\ out' = Msg("traceback", <<"2">>)
       ELSE pc' = pc /\ out' = Msg("listing", <<"2">>)
    /\ KeepLedger /\ KeepLocals /\ UNCHANGED <<csvfile, own_file>>

\* ------------------------------------------------- set_budget, track_budget
\* sum(expense['amount'] for expense in self.expenses)
RECURSIVE SumAmounts(_)
SumAmounts(exps) ==
    IF exps = <<>> THEN PyInt(0)
    ELSE PyAdd(SumAmounts(SubSeq(exps, 1, Len(exps) - 1)), exps[Len(exps)][KeyAmount])

SumRaises(exps) ==
    \E i \in 1..Len(exps) : KeyAmount \notin DOMAIN exps[i] \/ ~IsNumber(exps[i][KeyAmount])

\* A report that takes spending equal to the budget for an overrun.
BudgetReport_ge(budget, total_expenses) ==
    LET remaining_balance == PySub(budget, total_expenses)
    IN  IF PyGt(total_expenses, budget) \/ PyEq(total_expenses, budget)
        THEN [kind |-> "over", entry |-> <<"3">>, budget |-> budget,
              total |-> total_expenses, amount |-> PyAbs(remaining_balance)]
        ELSE [kind |-> "remaining", entry |-> <<"3">>, budget |-> budget,
              total |-> total_expenses, amount |-> remaining_balance]

BudgetReport(budget, total_expenses) ==
    LET remaining_balance == PySub(budget, total_expenses)
    IN  IF PyGt(total_expenses, budget)
        THEN [kind |-> "over", entry |-> <<"3">>, budget |-> budget,
              total |-> total_expenses, amount |-> PyAbs(remaining_balance)]
        ELSE [kind |-> "remaining", entry |-> <<"3">>, budget |-> budget,
              total |-> total_expenses, amount |-> remaining_balance]

track_budget ==
    /\ pc = "menu"
    /\ IF PyEq(monthly_budget, PyInt(0))
       THEN pc' = "track_yn" /\ out' = Msg("unset", <<"3">>)
       ELSE IF SumRaises(expenses)
       THEN pc' = "crashed" /\ out' = Msg("traceback", <<"3">>)
       ELSE pc' = pc /\ out' = BudgetReport(monthly_budget, SumAmounts(expenses))
    /\ KeepLedger /\ KeepLocals /\ UNCHANGED <<csvfile, own_file>>

Lower(line) == [i \in 1..Len(line) |-> IF line[i] = "Y" THEN "y" ELSE line[i]]

answer_set_budget ==
    /\ pc = "track_yn"
    /\ \E line \in YesNoInputs :
        /\ pc' = IF Lower(line) = <<"y">> THEN "set_budget" ELSE "menu"
        /\ out' = Msg("answered", line)
    /\ KeepLedger /\ KeepLocals /\ UNCHANGED <<csvfile, own_file>>

\* The budget set_budget stores for a line, if it stores one.
BudgetAccepted(line) ==
    LET r == ParseFloat(line)
    IN  [ok |-> r.ok /\ ~PyLe(r.v, PyInt(0)), v |-> r.v]

set_budget ==
    /\ pc = "set_budget"
    /\ \E line \in BudgetInputs :
        IF BudgetAccepted(line).ok
        THEN /\ monthly_budget' = BudgetAccepted(line).v
             /\ pc' = "menu"
             /\ out' = Msg("budget_set", line)
        ELSE /\ out' = Msg("invalid_budget", line)
             /\ UNCHANGED <<pc, monthly_budget>>
    /\ KeepLocals /\ UNCHANGED <<expenses, csvfile, own_file>>

\* ---------------------------------------------------------- save_expenses
\* open() may raise (OSError): nothing is written.  Opened, the file is truncated
\* and holds what was written when the block is left.
save_expenses(entry) ==
    \E opened \in BOOLEAN :
        LET w == FileWritten(expenses, monthly_budget)
        IN  IF opened
            THEN /\ csvfile' = w.text
                 /\ out' = Msg(IF w.ok THEN "saved" ELSE "save_error", entry)
            ELSE /\ csvfile' = csvfile
                 /\ out' = Msg("save_error", entry)

\* run(): choice '4'.
ChooseSave ==
    /\ pc = "menu"
    /\ save_expenses(<<"4">>)
    /\ KeepLedger /\ KeepLocals /\ UNCHANGED <<pc, own_file>>

\* An exit that leaves the loop without saving.
ChooseExit_nosave ==
    /\ pc = "menu"
    /\ pc' = "exited"
    /\ out' = Msg("goodbye", <<"5">>)
    /\ KeepLedger /\ KeepLocals /\ UNCHANGED <<csvfile, own_file>>

\* run(): choice '5'.
ChooseExit ==
    /\ pc = "menu"
    /\ save_expenses(<<"5">>)
    /\ pc' = "exited"
    /\ KeepLedger /\ KeepLocals /\ UNCHANGED own_file

\* run(): any other choice.
InvalidChoice ==
    /\ pc = "menu"
    /\ out' = Msg("invalid_choice", <<"x">>)
    /\ KeepLedger /\ KeepLocals /\ UNCHANGED <<pc, csvfile, own_file>>

Next ==
    \/ ChooseAdd
    \/ get_valid_date
    \/ get_category
    \/ get_positive_float
    \/ get_description
    \/ view_expenses
    \/ track_budget
    \/ answer_set_budget
    \/ set_budget
    \/ ChooseSave
    \/ ChooseExit
    \/ InvalidChoice
    \/ Restart

Spec == Init /\ [][Next]_vars

\* ------------------------------------------------------------- the claims
Zero == PyInt(0)
JustLoaded == pc = "menu" /\ out.kind \in {"loaded", "load_error"}

\* What the file says, read without the tracker: its first line, and the data
\* rows after the header row.
FirstLine(content) ==
    LET lines == SplitLines(UniversalNewlines(content), <<>>, <<>>)
    IN  IF lines = <<>> THEN <<>> ELSE Strip(lines[1])

HasBudgetLine(content) == Split(FirstLine(content), Comma)[1] = BudgetLabel

AfterFirstLine(content) ==
    LET text == UniversalNewlines(content)
        lines == SplitLines(text, <<>>, <<>>)
    IN  IF lines = <<>> THEN <<>> ELSE SubSeq(text, Len(lines[1]) + 1, Len(text))

DataRows(content) ==
    LET rows == CsvReader(AfterFirstLine(content)).rows
    IN  IF rows = <<>> THEN <<>> ELSE SelectSeq(Tail(rows), LAMBDA r : r # <<>>)

TooFewFields(row) == Len(row) < 4
NonNumericAmount(row) == Len(row) >= 3 /\ ~ParseFloat(row[3]).ok
MalformedLine(row) == TooFewFields(row) \/ NonNumericAmount(row)

\* The number of the first malformed data line, 0 if there is none.
FirstMalformed(content) ==
    LET rows == DataRows(content)
        bad == {i \in 1..Len(rows) : MalformedLine(rows[i])}
    IN  IF bad = {} THEN 0 ELSE CHOOSE i \in bad : \A j \in bad : i <= j

ValidRecord(e) ==
    /\ DOMAIN e = Range(fieldnames)
    /\ e[KeyDate].t = "str" /\ StrptimeOk(e[KeyDate].s)
    /\ e[KeyCategory].t = "str" /\ e[KeyCategory].s # <<>>
    /\ e[KeyAmount].t = "float" /\ e[KeyAmount].n > 0
    /\ e[KeyDescription].t = "str" /\ e[KeyDescription].s # <<>>

\* C1: a ledger built from valid add_expense and set_budget calls only (the file
\* was absent at the first start), with the budget unset or positive, saved with
\* success at exit and loaded by the next tracker, comes back with the same
\* records in the same order and an equal budget.
C1_RoundTrip ==
    [][(/\ pc = "exited" /\ out.kind = "saved" /\ own_file
        /\ (PyEq(monthly_budget, Zero) \/ PyGt(monthly_budget, Zero)))
       => (expenses' = expenses /\ PyEq(monthly_budget', monthly_budget))]_vars

\* A tracker that has just loaded its own save of two records, one with a comma
\* and a quote in its category, and a positive budget.
RoundTripWitness ==
    /\ JustLoaded /\ out.kind = "loaded" /\ own_file
    /\ Len(expenses) = 2
    /\ PyGt(monthly_budget, Zero)
    /\ \E i \in 1..Len(expenses) :
        {Comma, Quote} \subseteq Range(expenses[i][KeyCategory].s)

\* C2: after a load of a file with a budget line and a header row whose first
\* malformed data line is the k-th, a parse error is reported and the ledger holds
\* exactly the k-1 records before it, each one valid.
C2_PartialLoad ==
    (JustLoaded /\ HasBudgetLine(csvfile) /\ FirstMalformed(csvfile) > 0)
    => /\ out.kind = "load_error"
       /\ Len(expenses) = FirstMalformed(csvfile) - 1
       /\ \A i \in 1..Len(expenses) : IsNumber(expenses[i][KeyAmount])

\* C3: a load of an existing file whose first line is not the budget line, or that has a data line
\* with a non-numeric amount or with a number of fields that is not four,
\* reports a load error.
C3_Malformed(content) ==
    \/ content # <<>> /\ ~HasBudgetLine(content)
    \/ \E i \in 1..Len(DataRows(content)) :
        Len(DataRows(content)[i]) # 4 \/ NonNumericAmount(DataRows(content)[i])

C3_MalformedReported ==
    (JustLoaded /\ C3_Malformed(csvfile)) => out.kind = "load_error"

\* C4: no operation of the session raises an uncaught error, whatever the file
\* held at the start.
C4_NoCrash == pc # "crashed"

\* C5: every record of the ledger has the four fields, each validated.
C5_RecordsValid == \A i \in 1..Len(expenses) : ValidRecord(expenses[i])

\* C6: at the budget prompt an entry that is 0 or negative is rejected and leaves
\* monthly_budget as it was, and monthly_budget changes only to an entered value
\* that is > 0.
C6_SetBudget ==
    [][pc = "set_budget"
       => LET r == ParseFloat(out'.entry)
          IN  /\ (r.ok /\ PyLe(r.v, Zero))
                    => (monthly_budget' = monthly_budget /\ pc' = "set_budget")
              /\ monthly_budget' # monthly_budget
                    => (r.ok /\ PyGt(r.v, Zero) /\ monthly_budget' = r.v)]_vars

\* C7: when the menu loop has ended by choice 5, save_expenses was the last thing
\* run, and a save that succeeded left on disk the final ledger of the session.
C7_SaveBeforeExit ==
    pc = "exited"
    => /\ out.kind \in {"saved", "save_error"}
       /\ out.entry = <<"5">>
       /\ out.kind = "saved" => csvfile = FileWritten(expenses, monthly_budget).text

C7_Witness ==
    pc = "exited" /\ out.kind = "saved" /\ Len(expenses) = 2 /\ PyGt(monthly_budget, Zero)

\* C8: what track_budget reports: the unset state exactly when monthly_budget is
\* 0; otherwise the remaining balance budget - total, an overrun exactly when the
\* total is greater than the budget, and then the amount total - budget.
C8_BudgetStatus ==
    out.kind \in {"unset", "remaining", "over"}
    => /\ (out.kind = "unset") <=> PyEq(monthly_budget, Zero)
       /\ out.kind # "unset"
            => /\ out.budget = monthly_budget
               /\ out.total = SumAmounts(expenses)
               /\ (out.kind = "over") <=> PyGt(out.total, out.budget)
               /\ out.kind = "remaining" => out.amount = PySub(out.budget, out.total)
               /\ out.kind = "over" => out.amount = PySub(out.total, out.budget)

\* Spending equal to the budget, reported as a remaining balance of 0.
C8_Witness ==
    /\ out.kind = "remaining" /\ Len(expenses) >= 1
    /\ PyEq(out.total, out.budget) /\ PyEq(out.amount, Zero)

\* C9: a step of a running session leaves the records as they were, except the
\* step that completes add_expense, which appends exactly the record of the
\* validated date, category, amount and description.
C9_AppendOnly ==
    [][pc \notin {"exited", "crashed"}
       => IF pc = "add_description" /\ pc' = "menu"
          THEN /\ StrptimeOk(date_str) /\ category # <<>>
               /\ amount.t = "float" /\ amount.n > 0
               /\ Strip(out'.entry) # <<>>
               /\ expenses' = Append(expenses,
                    (KeyDate :> PyStr(date_str)) @@ (KeyCategory :> PyStr(category))
                    @@ (KeyAmount :> amount) @@ (KeyDescription :> PyStr(Strip(out'.entry))))
          ELSE expenses' = expenses]_vars

\* A second record just added by add_expense.
C9_Witness == pc = "menu" /\ out.kind = "added" /\ Len(expenses) = 2

\* The round trip of C1 for the ledgers whose texts hold no carriage return.
NoCR == \A i \in 1..Len(expenses) : \A k \in DOMAIN expenses[i] :
    CR \notin Range(expenses[i][k].s)

RoundTripWithoutCR ==
    [][(/\ pc = "exited" /\ out.kind = "saved" /\ own_file /\ NoCR
        /\ (PyEq(monthly_budget, Zero) \/ PyGt(monthly_budget, Zero)))
       => (expenses' = expenses /\ PyEq(monthly_budget', monthly_budget))]_vars

\* C10: monthly_budget is 0 or strictly positive.
C10_BudgetNotNegative == PyEq(monthly_budget, Zero) \/ PyGt(monthly_budget, Zero)

=============================================================================
